---------------------------- MODULE Spec2Model ----------------------------
(***************************************************************************)
(* A model of the smart-home controller's Intent Safety Firewall           *)
(* (intent_firewall.py), of the device executor that consults it           *)
(* (control_device in smart_home_api.py) and of the two callers of the     *)
(* executor: the main loop (main.py) and process_commands                  *)
(* (process_commands.py).                                                  *)
(*                                                                         *)
(* Python strings are TLA+ strings; substring tests, lower-casing and the  *)
(* regular expressions are computed character by character.  An optional   *)
(* Python value is a sequence of length at most one: <<>> is None and      *)
(* <<s>> is the string s.  A dict is a function whose DOMAIN is its keys.  *)
(* The emoji and the non-ASCII punctuation of the message templates are    *)
(* dropped or written in ASCII; nothing in the program reads them.         *)
(***************************************************************************)
EXTENDS Integers, Sequences, FiniteSets, TLC

VARIABLES
    command,        \* the dict passed to intent_firewall
    system_state,   \* the system_state argument of intent_firewall
    raw_text,       \* the raw_text argument of intent_firewall
    hour,           \* now.hour, read from the wall clock by intent_firewall
    verdict,        \* what the last intent_firewall call returned (or raised)
    pc,             \* "idle", or where the last call ended: "returned",
                    \* "evaluated", "executed", "canceled", "processed"
    device_states,  \* smart_home_api.device_states: device name -> status
    api_call,       \* arguments of the last control_device call
    api_return,     \* what the last control_device call returned
    firewall_result,\* main.py: what the intent_firewall call of line 58 returned
    prompted,       \* main.py: the safety prompt of line 59 was shown
    confirm,        \* main.py: the answer to the prompt, stripped and lower-cased
    responses       \* process_commands.py: the list of responses it returns

vars == <<command, system_state, raw_text, hour, verdict, pc,
          device_states, api_call, api_return,
          firewall_result, prompted, confirm, responses>>

\* the variables of the executor's callers
app_vars == <<firewall_result, prompted, confirm, responses>>

-----------------------------------------------------------------------------
(* Python values *)

None == <<>>

Str(s) == <<s>>

\* dict.get(key, default) on a dict whose values are optional strings
DictGet(d, key, default) == IF key \in DOMAIN d THEN d[key] ELSE Str(default)

-----------------------------------------------------------------------------
(* str methods and operators *)

CharAt(s, i) == SubSeq(s, i, i)

\* str.lower() of the characters it changes (ASCII)
LowerTable ==
    [A |-> "a", B |-> "b", C |-> "c", D |-> "d", E |-> "e", F |-> "f", G |-> "g",
     H |-> "h", I |-> "i", J |-> "j", K |-> "k", L |-> "l", M |-> "m", N |-> "n",
     O |-> "o", P |-> "p", Q |-> "q", R |-> "r", S |-> "s", T |-> "t", U |-> "u",
     V |-> "v", W |-> "w", X |-> "x", Y |-> "y", Z |-> "z"]

\* str.lower() of one character
LowerChar(c) == IF c \in DOMAIN LowerTable THEN LowerTable[c] ELSE c

RECURSIVE Lower(_)
\* str.lower()
Lower(s) ==
    IF s = "" THEN ""
    ELSE LowerChar(CharAt(s, 1)) \o Lower(SubSeq(s, 2, Len(s)))

\* p in s, for strings
Contains(p, s) ==
    \E i \in 1..(Len(s) - Len(p) + 1) : SubSeq(s, i, i + Len(p) - 1) = p

\* any(p in s for p in phrases)
ContainsAny(phrases, s) == \E k \in 1..Len(phrases) : Contains(phrases[k], s)

\* x in [a, b, ...]
InList(x, list) == \E k \in 1..Len(list) : list[k] = x

-----------------------------------------------------------------------------
(* The regular expressions: \b(\d{m,n})\b and \b(\d{m,n})%?\b, first match *)

\* int() of one digit, and \d
DigitTable ==
    ("0" :> 0) @@ ("1" :> 1) @@ ("2" :> 2) @@ ("3" :> 3) @@ ("4" :> 4) @@
    ("5" :> 5) @@ ("6" :> 6) @@ ("7" :> 7) @@ ("8" :> 8) @@ ("9" :> 9)

IsDigit(c) == c \in DOMAIN DigitTable

LowerLetters == {LowerTable[u] : u \in DOMAIN LowerTable}

\* \w on ASCII text: a letter, a digit or the underscore
IsWordChar(c) ==
    \/ c \in DOMAIN LowerTable
    \/ c \in LowerLetters
    \/ IsDigit(c)
    \/ c = "_"

WordAt(s, i) == i >= 1 /\ i <= Len(s) /\ IsWordChar(CharAt(s, i))

\* \b before position i (between characters i-1 and i)
Boundary(s, i) == WordAt(s, i - 1) # WordAt(s, i)

AllDigits(s, i, k) ==
    /\ i + k - 1 <= Len(s)
    /\ \A j \in i..(i + k - 1) : IsDigit(CharAt(s, j))

\* the pattern matches at position i with a group of k digits
MatchAt(s, i, k, percent) ==
    /\ Boundary(s, i)
    /\ AllDigits(s, i, k)
    /\ \/ Boundary(s, i + k)
       \/ percent /\ CharAt(s, i + k) = "%" /\ Boundary(s, i + k + 1)

DigitValue(c) == DigitTable[c]

RECURSIVE ToInt(_)
\* int(s) of a digit string
ToInt(s) ==
    IF s = "" THEN 0
    ELSE 10 * ToInt(SubSeq(s, 1, Len(s) - 1)) + DigitValue(CharAt(s, Len(s)))

\* re.findall(pattern, s): <<>> when nothing matches, else <<int(first group)>>
\* (\d+ is the pattern with hi = Len(s))
FirstNumber(s, lo, hi, percent) ==
    LET hits == {i \in 1..Len(s) : \E k \in lo..hi : MatchAt(s, i, k, percent)}
    IN IF hits = {} THEN <<>>
       ELSE LET i == CHOOSE x \in hits : \A y \in hits : x <= y
                \* greedy: the longest group that lets the rest match
                k == CHOOSE x \in lo..hi :
                        /\ MatchAt(s, i, x, percent)
                        /\ \A y \in lo..hi : MatchAt(s, i, y, percent) => y <= x
            IN <<ToInt(SubSeq(s, i, i + k - 1))>>

-----------------------------------------------------------------------------
(* intent_firewall.py *)

\* A returned tuple (allowed, message, requires_confirmation)
Return(allowed, message, requires_confirmation) ==
    [raised |-> FALSE, allowed |-> allowed, message |-> message,
     requires_confirmation |-> requires_confirmation]

\* An exception propagating out of the call: nothing is returned
Raise == [raised |-> TRUE, allowed |-> FALSE, message |-> "AttributeError",
          requires_confirmation |-> FALSE]

format_blocked_response(reason, suggestion) ==
    "Command Blocked by Intent Firewall\nReason: " \o reason
        \o "\nSuggestion: " \o suggestion

format_confirmation_response(reason) ==
    "Confirmation Required\nReason: " \o reason
        \o "\nAre you sure you want to continue? (yes/no)"

\* system_state and system_state.get(key)
StateFlag(state, key) ==
    /\ state # None
    /\ DOMAIN state[1] # {}
    /\ key \in DOMAIN state[1]
    /\ state[1][key] = TRUE

\* mutant: list_devices is forgotten
always_safe_without_list_devices == <<"status", "get_status">>

always_safe == <<"status", "get_status", "list_devices">>

lighting_aliases == <<"lamp", "chandelier", "led strip", "bulb">>

doors == <<"door", "lock", "smart lock">>

kitchen == <<"oven", "stove", "microwave", "pressure cooker", "blender", "food processor">>

climate == <<"thermostat", "air conditioning", "heater", "humidifier", "dehumidifier">>

cameras == <<"security camera", "camera">>

outdoor == <<"pool pump", "pool heater", "hot tub", "sprinkler system", "outdoor grill">>

robots == <<"robot vacuum", "robot lawn mower", "washing machine", "dryer">>

\* mutant: the last phrase is forgotten
unsafe_without_child_lock ==
    <<"disable all security", "turn off all alarms", "disable smoke detector",
      "unlock all doors", "stop all security cameras">>

unsafe == <<"disable all security", "turn off all alarms", "disable smoke detector",
            "unlock all doors", "stop all security cameras", "disable child lock">>

\* a rule group either returns a verdict, <<v>>, or falls through, <<>>
FallThrough == <<>>

OrElse(first, rest) == IF first # FallThrough THEN first ELSE rest

IsLighting(device) == Contains("light", device) \/ InList(device, lighting_aliases)

\* mutant: the window opens after 22 instead of at 22
LightingTurnOffAll_After22(location, text_check, h) ==
    IF (Contains("all", location) \/ Contains("all lights", text_check))
       /\ (h > 22 \/ h < 6)
    THEN <<Return(FALSE, format_confirmation_response(
            "Turning off all lights after 10PM may cause unsafe conditions."), TRUE)>>
    ELSE FallThrough

LightingTurnOffAll(location, text_check, h) ==
    IF (Contains("all", location) \/ Contains("all lights", text_check))
       /\ (h >= 22 \/ h < 6)
    THEN <<Return(FALSE, format_confirmation_response(
            "Turning off all lights after 10PM may cause unsafe conditions."), TRUE)>>
    ELSE FallThrough

\* mutant: the location is compared, not searched
LightingKidsRoom_ExactLocation(location, state) ==
    IF location = "kids" /\ StateFlag(state, "kids_room_occupied")
    THEN <<Return(FALSE, format_blocked_response(
            "Cannot turn off lights in the kids' room while occupied.",
            "Leave lights on or wait until room is empty."), FALSE)>>
    ELSE FallThrough

LightingKidsRoom(location, state) ==
    IF Contains("kids", location) /\ StateFlag(state, "kids_room_occupied")
    THEN <<Return(FALSE, format_blocked_response(
            "Cannot turn off lights in the kids' room while occupied.",
            "Leave lights on or wait until room is empty."), FALSE)>>
    ELSE FallThrough

LightingStairs(location, h) ==
    IF Contains("stair", location) /\ (h >= 22 \/ h < 6)
    THEN <<Return(FALSE, format_confirmation_response(
            "Stair lights should remain on at night for safety."), TRUE)>>
    ELSE FallThrough

LightingTurnOff(location, text_check, state, h) ==
    OrElse(LightingTurnOffAll(location, text_check, h),
    OrElse(LightingKidsRoom(location, state),
           LightingStairs(location, h)))

LightingBrightness(text_check, h) ==
    LET brightness == FirstNumber(text_check, 1, Len(text_check), TRUE)
    IN IF brightness # <<>> /\ brightness[1] > 90 /\ (h >= 22 \/ h < 6)
       THEN <<Return(FALSE, format_confirmation_response(
               "Brightness above 90% at night may disturb sleep."), TRUE)>>
       ELSE FallThrough

LightingRules(device, location, action, text_check, state, h) ==
    IF IsLighting(device)
    THEN OrElse(IF action = "turn_off"
                THEN LightingTurnOff(location, text_check, state, h)
                ELSE FallThrough,
                IF action = "set_brightness"
                THEN LightingBrightness(text_check, h)
                ELSE FallThrough)
    ELSE FallThrough

DoorAllDoors(text_check) ==
    IF Contains("all doors", text_check)
    THEN <<Return(FALSE, format_blocked_response(
            "Unlocking all doors is unsafe.",
            "Unlock doors individually only."), FALSE)>>
    ELSE FallThrough

\* mutant: the door window opens at 22:00, as the lighting window does
DoorNight_From22(h) ==
    IF h >= 22 \/ h < 6
    THEN <<Return(FALSE, format_confirmation_response(
            "Unlocking doors between 11PM-6AM may be unsafe."), TRUE)>>
    ELSE FallThrough

\* mutant: the confirmation is returned with allowed set
DoorNight_AllowedAndConfirm(h) ==
    IF h >= 23 \/ h < 6
    THEN <<Return(TRUE, format_confirmation_response(
            "Unlocking doors between 11PM-6AM may be unsafe."), TRUE)>>
    ELSE FallThrough

DoorNight(h) ==
    IF h >= 23 \/ h < 6
    THEN <<Return(FALSE, format_confirmation_response(
            "Unlocking doors between 11PM-6AM may be unsafe."), TRUE)>>
    ELSE FallThrough

DoorStranger(text_check) ==
    IF Contains("stranger", text_check)
    THEN <<Return(FALSE, format_blocked_response(
            "Cannot unlock the door for unknown persons.",
            "Allow only verified household members."), FALSE)>>
    ELSE FallThrough

\* mutant: the night check comes before the "all doors" check
DoorRules_NightFirst(device, action, text_check, h) ==
    IF InList(device, doors) /\ InList(action, <<"unlock", "open">>)
    THEN OrElse(DoorNight(h),
         OrElse(DoorAllDoors(text_check),
                DoorStranger(text_check)))
    ELSE FallThrough

\* mutant: the "stranger" check comes before the night check
DoorRules_StrangerBeforeNight(device, action, text_check, h) ==
    IF InList(device, doors) /\ InList(action, <<"unlock", "open">>)
    THEN OrElse(DoorAllDoors(text_check),
         OrElse(DoorStranger(text_check),
                DoorNight(h)))
    ELSE FallThrough

DoorRules(device, action, text_check, h) ==
    IF InList(device, doors) /\ InList(action, <<"unlock", "open">>)
    THEN OrElse(DoorAllDoors(text_check),
         OrElse(DoorNight(h),
                DoorStranger(text_check)))
    ELSE FallThrough

\* mutant: the kitchen window ends at 05:00
KitchenNight_Until5(device, h) ==
    IF h >= 23 \/ h < 5
    THEN <<Return(FALSE, format_confirmation_response(
            "Using " \o device \o " at night may be unsafe."), TRUE)>>
    ELSE FallThrough

KitchenNight(device, h) ==
    IF h >= 23 \/ h < 6
    THEN <<Return(FALSE, format_confirmation_response(
            "Using " \o device \o " at night may be unsafe."), TRUE)>>
    ELSE FallThrough

KitchenOven(device, text_check) ==
    LET temps == FirstNumber(text_check, 3, 3, FALSE)
    IN IF device = "oven" /\ temps # <<>> /\ temps[1] > 250
       THEN <<Return(FALSE, format_confirmation_response(
               "High oven temperature above 250C detected."), TRUE)>>
       ELSE FallThrough

KitchenRules(device, action, text_check, h) ==
    IF InList(device, kitchen) /\ InList(action, <<"turn_on", "start", "preheat">>)
    THEN OrElse(KitchenNight(device, h), KitchenOven(device, text_check))
    ELSE FallThrough

\* mutant: the limits themselves are refused
ClimateTemperature_Inclusive(device, t) ==
    IF InList(device, <<"thermostat", "air conditioning", "heater">>)
       /\ (t <= 10 \/ t >= 32)
    THEN <<Return(FALSE, format_blocked_response(
            "Temperature must stay between 10-32C.",
            "Choose a safer range."), FALSE)>>
    ELSE FallThrough

ClimateTemperature(device, t) ==
    IF InList(device, <<"thermostat", "air conditioning", "heater">>)
       /\ (t < 10 \/ t > 32)
    THEN <<Return(FALSE, format_blocked_response(
            "Temperature must stay between 10-32C.",
            "Choose a safer range."), FALSE)>>
    ELSE FallThrough

ClimateHumidity(device, text_check) ==
    LET hum == FirstNumber(text_check, 2, 3, TRUE)
    IN IF device = "humidifier" /\ hum # <<>> /\ hum[1] > 80
       THEN <<Return(FALSE, format_confirmation_response(
               "Humidity above 80% may cause mold."), TRUE)>>
       ELSE FallThrough

ClimateRules(device, text_check) ==
    LET temps == FirstNumber(text_check, 1, 2, FALSE)
    IN IF InList(device, climate) /\ temps # <<>>
       THEN OrElse(ClimateTemperature(device, temps[1]),
                   ClimateHumidity(device, text_check))
       ELSE FallThrough

\* mutant: 60 itself is blocked
WaterHeaterRules_From60(device, action, text_check) ==
    LET temps == FirstNumber(text_check, 1, 3, FALSE)
    IN IF /\ device = "water heater"
          /\ InList(action, <<"turn_on", "set_temperature">>)
          /\ temps # <<>>
          /\ temps[1] >= 60
       THEN <<Return(FALSE, format_blocked_response(
               "Water temperature above 60C may cause burns.",
               "Keep water heater below 60C."), FALSE)>>
       ELSE FallThrough

WaterHeaterRules(device, action, text_check) ==
    LET temps == FirstNumber(text_check, 1, 3, FALSE)
    IN IF /\ device = "water heater"
          /\ InList(action, <<"turn_on", "set_temperature">>)
          /\ temps # <<>>
          /\ temps[1] > 60
       THEN <<Return(FALSE, format_blocked_response(
               "Water temperature above 60C may cause burns.",
               "Keep water heater below 60C."), FALSE)>>
       ELSE FallThrough

\* mutant: the camera window ends at 06:00
CameraRules_Until6(device, action, h) ==
    IF /\ InList(device, cameras)
       /\ InList(action, <<"turn_off", "disable">>)
       /\ (h >= 22 \/ h < 6)
    THEN <<Return(FALSE, format_blocked_response(
            "Disabling cameras at night compromises security.",
            "Keep cameras enabled overnight."), FALSE)>>
    ELSE FallThrough

\* mutant: the camera rule looks at the hour only, not at the action
CameraRules_AnyAction(device, action, h) ==
    IF InList(device, cameras) /\ (h >= 22 \/ h < 8)
    THEN <<Return(FALSE, format_blocked_response(
            "Disabling cameras at night compromises security.",
            "Keep cameras enabled overnight."), FALSE)>>
    ELSE FallThrough

CameraRules(device, action, h) ==
    IF /\ InList(device, cameras)
       /\ InList(action, <<"turn_off", "disable">>)
       /\ (h >= 22 \/ h < 8)
    THEN <<Return(FALSE, format_blocked_response(
            "Disabling cameras at night compromises security.",
            "Keep cameras enabled overnight."), FALSE)>>
    ELSE FallThrough

OutdoorNight(device, h) ==
    IF InList(device, <<"pool pump", "hot tub">>) /\ (h >= 22 \/ h < 7)
    THEN <<Return(FALSE, format_confirmation_response(
            "Operating " \o device \o " at night may disturb neighbors."), TRUE)>>
    ELSE FallThrough

OutdoorHotTub(device, text_check) ==
    LET temps == FirstNumber(text_check, 2, 2, FALSE)
    IN IF device = "hot tub" /\ temps # <<>> /\ temps[1] > 40
       THEN <<Return(FALSE, format_blocked_response(
               "Hot tub temperature above 40C is unsafe.",
               "Keep water temp below 40C."), FALSE)>>
       ELSE FallThrough

OutdoorRules(device, action, text_check, h) ==
    IF InList(device, outdoor) /\ action = "turn_on"
    THEN OrElse(OutdoorNight(device, h), OutdoorHotTub(device, text_check))
    ELSE FallThrough

\* mutant: the quiet hours begin at 23:00
RobotRules_From23(device, action, h) ==
    IF /\ InList(device, robots)
       /\ InList(action, <<"start", "turn_on">>)
       /\ (h >= 23 \/ h < 7)
    THEN <<Return(FALSE, format_confirmation_response(
            "Running " \o device \o " during quiet hours may disturb others."), TRUE)>>
    ELSE FallThrough

RobotRules(device, action, h) ==
    IF /\ InList(device, robots)
       /\ InList(action, <<"start", "turn_on">>)
       /\ (h >= 22 \/ h < 7)
    THEN <<Return(FALSE, format_confirmation_response(
            "Running " \o device \o " during quiet hours may disturb others."), TRUE)>>
    ELSE FallThrough

\* mutant: the cabinet asks for confirmation whatever the system state says
MedicineCabinetRules_AnyState(device, action, state) ==
    IF device = "medicine cabinet" /\ action = "open"
    THEN <<Return(FALSE, format_confirmation_response(
            "Medicine cabinet is locked. Adult supervision required."), TRUE)>>
    ELSE FallThrough

MedicineCabinetRules(device, action, state) ==
    IF /\ device = "medicine cabinet"
       /\ action = "open"
       /\ StateFlag(state, "child_lock_enabled")
    THEN <<Return(FALSE, format_confirmation_response(
            "Medicine cabinet is locked. Adult supervision required."), TRUE)>>
    ELSE FallThrough

\* mutant: a denylist phrase asks for confirmation instead of blocking
UnsafePhrases_Confirm(text_check) ==
    IF ContainsAny(unsafe, text_check)
    THEN <<Return(FALSE, format_confirmation_response(
            "Command violates core safety rules."), TRUE)>>
    ELSE FallThrough

UnsafePhrases(text_check) ==
    IF ContainsAny(unsafe, text_check)
    THEN <<Return(FALSE, format_blocked_response(
            "Command violates core safety rules.",
            "Manual override is not allowed."), FALSE)>>
    ELSE FallThrough

\* lines 37-39
NormalizeSynonyms(action) == IF InList(action, <<"check", "show">>) THEN "status" ELSE action

\* mutant: the denylist is read only when no category matched the device; a
\* lighting device no lighting rule stopped is allowed at once
CategoryRules_DenylistOnlyIfUnmatched(device, location, action, text_check, state, h) ==
    OrElse(LightingRules(device, location, action, text_check, state, h),
    OrElse(IF IsLighting(device) THEN <<Return(TRUE, "", FALSE)>> ELSE FallThrough,
    OrElse(DoorRules(device, action, text_check, h),
    OrElse(KitchenRules(device, action, text_check, h),
    OrElse(ClimateRules(device, text_check),
    OrElse(WaterHeaterRules(device, action, text_check),
    OrElse(CameraRules(device, action, h),
    OrElse(OutdoorRules(device, action, text_check, h),
    OrElse(RobotRules(device, action, h),
    OrElse(MedicineCabinetRules(device, action, state),
    OrElse(UnsafePhrases(text_check),
           <<Return(TRUE, "", FALSE)>>)))))))))))[1]

\* lines 41-177, after the always-safe shortcut
CategoryRules(device, location, action, text_check, state, h) ==
    OrElse(LightingRules(device, location, action, text_check, state, h),
    OrElse(DoorRules(device, action, text_check, h),
    OrElse(KitchenRules(device, action, text_check, h),
    OrElse(ClimateRules(device, text_check),
    OrElse(WaterHeaterRules(device, action, text_check),
    OrElse(CameraRules(device, action, h),
    OrElse(OutdoorRules(device, action, text_check, h),
    OrElse(RobotRules(device, action, h),
    OrElse(MedicineCabinetRules(device, action, state),
    OrElse(UnsafePhrases(text_check),
           <<Return(TRUE, "", FALSE)>>))))))))))[1]

\* lines 28-30: command.get(key, "").lower() raises on a None value
FieldsAreStrings(cmd) ==
    /\ DictGet(cmd, "device", "") # None
    /\ DictGet(cmd, "location", "") # None
    /\ DictGet(cmd, "action", "") # None

\* intent_firewall(command, system_state, raw_text), with now.hour = h
intent_firewall(cmd, state, text, h) ==
    IF ~FieldsAreStrings(cmd) THEN Raise
    ELSE LET device == Lower(DictGet(cmd, "device", "")[1])
             location == Lower(DictGet(cmd, "location", "")[1])
             action == Lower(DictGet(cmd, "action", "")[1])
             text_check == Lower(text)
         IN IF InList(action, always_safe)
            THEN Return(TRUE, "", FALSE)
            ELSE CategoryRules(device, location, NormalizeSynonyms(action),
                               text_check, state, h)

-----------------------------------------------------------------------------
(* smart_home_api.py *)

\* the entries of device_states the model keeps, in the dict's order; of each
\* entry only "status" is kept, the one field control_device writes
DeviceNames ==
    <<"bedroom_light", "front_door", "back_door", "security_camera", "microwave">>

InitialDeviceStates ==
    [n \in {DeviceNames[k] : k \in 1..Len(DeviceNames)} |->
        IF n \in {"front_door", "back_door"} THEN [status |-> "locked"]
        ELSE [status |-> "off"]]

RECURSIVE ReplaceUnderscores(_)
\* dev_name.replace('_', ' ')
ReplaceUnderscores(s) ==
    IF s = "" THEN ""
    ELSE (IF CharAt(s, 1) = "_" THEN " " ELSE CharAt(s, 1))
            \o ReplaceUnderscores(SubSeq(s, 2, Len(s)))

\* lines 182-189
DeviceMatches(dev_name, device, location) ==
    LET device_lower == Lower(device)
        location_lower == Lower(location)
        dev_name_lower == Lower(dev_name)
        device_match ==
            \/ device_lower = "all"
            \/ Contains(device_lower, dev_name_lower)
            \/ device_lower = "light" /\ Contains("light", dev_name_lower)
            \/ device_lower = "thermostat" /\ Contains("thermostat", dev_name_lower)
        location_match ==
            location_lower = "all" \/ Contains(location_lower, dev_name_lower)
    IN device_match /\ location_match

\* lines 199-221: the status an action writes, <<>> when it writes none
NewStatus(action) ==
    IF InList(action, <<"turn_on", "on", "start">>) THEN <<"on">>
    ELSE IF InList(action, <<"turn_off", "off", "stop">>) THEN <<"off">>
    ELSE IF action = "lock" THEN <<"locked">>
    ELSE IF action = "unlock" THEN <<"unlocked">>
    ELSE IF action = "open" THEN <<"open">>
    ELSE IF action = "close" THEN <<"closed">>
    ELSE <<>>

\* lines 199-221: the result line of one matched device
ResultLine(dev_name, action, dev) ==
    LET name == ReplaceUnderscores(dev_name)
    IN IF InList(action, <<"turn_on", "on", "start">>) THEN "Turned on " \o name
       ELSE IF InList(action, <<"turn_off", "off", "stop">>) THEN "Turned off " \o name
       ELSE IF action = "lock" THEN "Locked " \o name
       ELSE IF action = "unlock" THEN "Unlocked " \o name
       ELSE IF action = "open" THEN "Opened " \o name
       ELSE IF action = "close" THEN "Closed " \o name
       ELSE IF InList(action, <<"get_status", "status">>)
            THEN name \o ": status=" \o dev.status
       ELSE "Unknown action '" \o action \o "' for " \o name

explanations ==
    [bedroom_light |-> "Auto-dimming lights for better sleep hygiene.",
     front_door |-> "Smart lock with biometric + PIN options.",
     back_door |-> "Reinforced smart locking.",
     security_camera |-> "AI detects people, pets, and packages.",
     microwave |-> "Detects food weight for auto-timing."]

generate_rich_explanation(device, action, result) ==
    LET explanation == IF Lower(device) \in DOMAIN explanations
                       THEN explanations[Lower(device)]
                       ELSE "Command Executed"
    IN explanation \o "\n\nSystem Status: " \o result

\* the device names control_device matches, in the dict's order
MatchedDevices(device, location) ==
    SelectSeq(DeviceNames, LAMBDA n : DeviceMatches(n, device, location))

\* the registry after the loop of lines 196-221
ApplyAction(states, matched_devices, action) ==
    [n \in DOMAIN states |->
        IF InList(n, matched_devices) /\ NewStatus(action) # <<>>
        THEN [states[n] EXCEPT !.status = NewStatus(action)[1]]
        ELSE states[n]]

RECURSIVE JoinResults(_, _, _)
\* "\n\n".join(results)
JoinResults(states, matched_devices, action) ==
    IF matched_devices = <<>> THEN ""
    ELSE LET n == Head(matched_devices)
             line == generate_rich_explanation(n, action,
                        ResultLine(n, action, ApplyAction(states, <<n>>, action)[n]))
         IN IF Len(matched_devices) = 1 THEN line
            ELSE line \o "\n\n" \o JoinResults(states, Tail(matched_devices), action)

\* lines 165-169: the firewall call control_device makes
ApiVerdict(states, device, location, action, h) ==
    intent_firewall([device |-> Str(device), location |-> Str(location),
                     action |-> Str(action)],
                    Str(states), action \o " " \o device \o " " \o location, h)

\* mutant: a verdict that asks for confirmation is executed
IsRefused_BlockOnly(v) == ~v.allowed /\ ~v.requires_confirmation

\* lines 171-174: the firewall's message is returned and nothing is executed
IsRefused(v) == (~v.allowed /\ ~v.requires_confirmation) \/ v.requires_confirmation

\* lines 171-226: what control_device does with the firewall's verdict v and the
\* devices it matched: the verdict, the string returned and the registry left
ControlDeviceResult(v, matched_devices, states, device, location, action) ==
    IF IsRefused(v)
    THEN [verdict |-> v, result |-> v.message, device_states |-> states]
    ELSE IF matched_devices = <<>>
    THEN [verdict |-> v,
          result |-> "No devices found matching: device='" \o device
                         \o "', location='" \o location \o "'",
          device_states |-> states]
    ELSE [verdict |-> v,
          result |-> JoinResults(states, matched_devices, action),
          device_states |-> ApplyAction(states, matched_devices, action)]

\* control_device(device, location, action) on the registry states while
\* now.hour = h
control_device(states, device, location, action, h) ==
    ControlDeviceResult(ApiVerdict(states, device, location, action, h),
                        MatchedDevices(device, location),
                        states, device, location, action)

-----------------------------------------------------------------------------
(* main.py and process_commands.py *)

RECURSIVE LStrip(_)
LStrip(s) ==
    IF s # "" /\ CharAt(s, 1) = " " THEN LStrip(SubSeq(s, 2, Len(s))) ELSE s

RECURSIVE RStrip(_)
RStrip(s) ==
    IF s # "" /\ CharAt(s, Len(s)) = " " THEN RStrip(SubSeq(s, 1, Len(s) - 1)) ELSE s

\* s.strip(); the only white space the model's strings hold is the space
Strip(s) == RStrip(LStrip(s))

RECURSIVE Replace(_, _, _)
\* s.replace(k, v), k not empty
Replace(s, k, v) ==
    IF Len(s) < Len(k) THEN s
    ELSE IF SubSeq(s, 1, Len(k)) = k
         THEN v \o Replace(SubSeq(s, Len(k) + 1, Len(s)), k, v)
         ELSE SubSeq(s, 1, 1) \o Replace(SubSeq(s, 2, Len(s)), k, v)

\* main.py line 58: `if intent_firewall(...)` tests the tuple returned, and a
\* tuple is true when it is not empty
Truthy(v) == Len(<<v.allowed, v.message, v.requires_confirmation>>) > 0

\* process_commands.py lines 18-24, in the dict's order
replacements ==
    << <<"smart tv", "tv">>,
       <<"television", "tv">>,
       <<"where the child is standing", "living room">>,
       <<"child standing", "living room">>,
       <<"child is near", "">> >>

RECURSIVE ApplyReplacements(_, _)
\* process_commands.py lines 25-27
ApplyReplacements(name, rs) ==
    IF rs = <<>> THEN name
    ELSE ApplyReplacements(IF Contains(Head(rs)[1], name)
                           THEN Replace(name, Head(rs)[1], Head(rs)[2])
                           ELSE name,
                           Tail(rs))

normalize_name(name) ==
    IF name = "" THEN ""
    ELSE Strip(ApplyReplacements(Strip(Lower(name)), replacements))

\* the keys of the dict smart_home_api.list_devices() returns
list_devices ==
    <<"bedroom light", "living room light", "kitchen light", "bathroom light",
      "hallway light", "front door", "back door", "garage door", "microwave",
      "oven", "stove", "coffee maker", "kettle", "humidifier", "air conditioner",
      "heater", "bath fan", "shower", "security camera 1", "security camera 2",
      "alarm system", "sprinkler", "garage light", "outdoor lights",
      "robot vacuum", "washing machine", "dryer", "medicine cabinet">>

\* difflib.get_close_matches(target, device_registry, n=1, cutoff=0.5) for the
\* targets the commands of the model produce, as the library computes it
close_matches ==
    [t \in {"microwave ()", "microwave (kitchen)", "front door ()",
            "front door (kitchen)", "tv ()", "tv (kitchen)"} |->
        CASE t \in {"microwave ()", "microwave (kitchen)"} -> <<"microwave">>
          [] t \in {"front door ()", "front door (kitchen)"} -> <<"front door">>
          [] t = "tv (kitchen)" -> <<"kitchen light">>
          [] OTHER -> <<>>]

get_close_matches(target) == close_matches[target]

RECURSIVE Find(_, _, _)
\* the least index from i on at which sub begins in s, 0 when there is none
Find(sub, s, i) ==
    IF i + Len(sub) - 1 > Len(s) THEN 0
    ELSE IF SubSeq(s, i, i + Len(sub) - 1) = sub THEN i
    ELSE Find(sub, s, i + 1)

RECURSIVE RStripParen(_)
\* loc.rstrip(")")
RStripParen(s) ==
    IF s # "" /\ CharAt(s, Len(s)) = ")"
    THEN RStripParen(SubSeq(s, 1, Len(s) - 1)) ELSE s

\* process_commands.py lines 68-72: the device and the location of a match
SplitMatch(match) ==
    LET at == Find(" (", match, 1)
    IN IF at # 0 /\ CharAt(match, Len(match)) = ")"
       THEN <<SubSeq(match, 1, at - 1),
              RStripParen(SubSeq(match, at + 2, Len(match)))>>
       ELSE <<match, "">>

\* what process_commands has done so far: the registry, the responses, and the
\* last control_device call with the registry it found
NoCallYet(states) ==
    [device_states |-> states, responses |-> <<>>,
     called |-> FALSE, before |-> states,
     api_call |-> [device |-> "", location |-> "", action |-> ""],
     verdict |-> [raised |-> FALSE, allowed |-> FALSE, message |-> "",
                  requires_confirmation |-> FALSE],
     result |-> ""]

\* the state after a response was appended and control_device returned r
AfterCall(st, response, d, loc, action, r) ==
    [device_states |-> r.device_states,
     responses |-> Append(st.responses, response),
     called |-> TRUE, before |-> st.device_states,
     api_call |-> [device |-> d, location |-> loc, action |-> action],
     verdict |-> r.verdict,
     result |-> r.result]

\* lines 57-61 and 67-76: the response is appended, then control_device is
\* called; the call with the context argument raises TypeError before
\* control_device runs (it takes three arguments), and the call is made again
\* without it; the responses are kept without the symbol and the space the
\* source puts in front of each of them
ReportThenCall(st, response, d, loc, action, h) ==
    AfterCall(st, response, d, loc, action,
              control_device(st.device_states, d, loc, action, h))

\* lines 64-78: the target is not a key of the registry; possible is what
\* get_close_matches found
FuzzyMatch(st, target, possible, action, h) ==
    IF possible # <<>>
    THEN ReportThenCall(st, "Action executed through VisionAI: " \o possible[1]
                                \o " - " \o action,
                        Strip(SplitMatch(possible[1])[1]),
                        Strip(SplitMatch(possible[1])[2]), action, h)
    ELSE [st EXCEPT !.responses = Append(@, "No such device found: " \o target)]

\* lines 54-78, for the normalized device and location
ProcessTarget(st, target, device, location, action, h) ==
    IF InList(target, list_devices)
    THEN ReportThenCall(st, "Action executed: " \o target \o " - " \o action,
                        device, location, action, h)
    ELSE FuzzyMatch(st, target, get_close_matches(target), action, h)

\* lines 50-54: the target f"{device} ({location})".strip()
Target(device, location) == Strip(device \o " (" \o location \o ")")

\* process_commands.py lines 50-78: one turn of the loop
ProcessOne(st, cmd, h) ==
    ProcessTarget(st,
                  Target(normalize_name(cmd.device), normalize_name(cmd.location)),
                  normalize_name(cmd.device), normalize_name(cmd.location),
                  cmd.action, h)

RECURSIVE process_commands(_, _, _)
\* process_commands(commands, original_text) from the state st, now.hour = h
process_commands(st, commands, h) ==
    IF commands = <<>> THEN st
    ELSE process_commands(ProcessOne(st, Head(commands), h), Tail(commands), h)

-----------------------------------------------------------------------------
(* The state machine *)

NoCommand == [k \in {} |-> None]

NoVerdict == [raised |-> FALSE, allowed |-> FALSE, message |-> "",
              requires_confirmation |-> FALSE]

NoApiCall == [device |-> "", location |-> "", action |-> ""]

Init ==
    /\ command = NoCommand
    /\ system_state = None
    /\ raw_text = ""
    /\ hour = 0
    /\ verdict = NoVerdict
    /\ pc = "idle"
    /\ device_states = InitialDeviceStates
    /\ api_call = NoApiCall
    /\ api_return = ""
    /\ firewall_result = NoVerdict
    /\ prompted = FALSE
    /\ confirm = ""
    /\ responses = <<>>

Hours == 0..23

\* a call of control_device(device, location, action) while now.hour = h
ControlDevice(device, location, action, h) ==
    \E r \in {control_device(device_states, device, location, action, h)} :
       /\ pc = "idle"
       /\ pc' = "returned"
       /\ api_call' = [device |-> device, location |-> location, action |-> action]
       /\ command' = [device |-> Str(device), location |-> Str(location),
                      action |-> Str(action)]
       /\ system_state' = Str(device_states)
       /\ raw_text' = action \o " " \o device \o " " \o location
       /\ hour' = h
       /\ verdict' = r.verdict
       /\ api_return' = r.result
       /\ device_states' = r.device_states
       /\ UNCHANGED app_vars

\* mutant: the firewall executes the command it allows, as control_device would
EvaluateFirewall_ThenExecutes(cmd, state, text, h) ==
    LET v == intent_firewall(cmd, state, text, h)
        device == DictGet(cmd, "device", "")[1]
        location == DictGet(cmd, "location", "")[1]
        action == DictGet(cmd, "action", "")[1]
    IN /\ pc = "idle"
       /\ pc' = "evaluated"
       /\ command' = cmd
       /\ system_state' = state
       /\ raw_text' = text
       /\ hour' = h
       /\ verdict' = v
       /\ IF v.allowed
          THEN /\ api_call' = [device |-> device, location |-> location,
                               action |-> action]
               /\ device_states' =
                      ApplyAction(device_states, MatchedDevices(device, location), action)
          ELSE UNCHANGED <<device_states, api_call>>
       /\ UNCHANGED api_return
       /\ UNCHANGED app_vars

\* a direct call of intent_firewall(cmd, state, text) while now.hour = h
EvaluateFirewall(cmd, state, text, h) ==
    /\ pc = "idle"
    /\ pc' = "evaluated"
    /\ command' = cmd
    /\ system_state' = state
    /\ raw_text' = text
    /\ hour' = h
    /\ verdict' = intent_firewall(cmd, state, text, h)
    /\ UNCHANGED <<device_states, api_call, api_return>>
    /\ UNCHANGED app_vars

\* main.py lines 50-69 for one recognized command (device and action not empty),
\* the user typing answer at the safety prompt, while now.hour = h
MainCommand(device, action, answer, h) ==
    \E first \in {intent_firewall([device |-> Str(device), action |-> Str(action)],
                                   None, "", h)},
       reply \in {Strip(Lower(answer))},
       r \in {control_device(device_states, device, "all", action, h)} :
       /\ pc = "idle"
       /\ device # ""
       /\ action # ""
       /\ firewall_result' = first
       /\ prompted' = Truthy(first)
       /\ confirm' = IF Truthy(first) THEN reply ELSE ""
       /\ hour' = h
       /\ IF Truthy(first) /\ reply # "yes"
          THEN /\ pc' = "canceled"
               /\ command' = [device |-> Str(device), action |-> Str(action)]
               /\ system_state' = None
               /\ raw_text' = ""
               /\ verdict' = first
               /\ UNCHANGED <<device_states, api_call, api_return>>
          ELSE /\ pc' = "executed"
               /\ api_call' = [device |-> device, location |-> "all",
                               action |-> action]
               /\ command' = [device |-> Str(device), location |-> Str("all"),
                              action |-> Str(action)]
               /\ system_state' = Str(device_states)
               /\ raw_text' = action \o " " \o device \o " all"
               /\ verdict' = r.verdict
               /\ api_return' = r.result
               /\ device_states' = r.device_states
       /\ UNCHANGED responses

\* a call of process_commands(commands, original_text) while now.hour = h
ProcessCommands(commands, h) ==
    \E st \in {process_commands(NoCallYet(device_states), commands, h)} :
       /\ pc = "idle"
       /\ pc' = "processed"
       /\ responses' = st.responses
       /\ device_states' = st.device_states
       /\ api_call' = st.api_call
       /\ api_return' = st.result
       /\ verdict' = st.verdict
       /\ hour' = h
       /\ IF st.called
          THEN /\ command' = [device |-> Str(st.api_call.device),
                              location |-> Str(st.api_call.location),
                              action |-> Str(st.api_call.action)]
               /\ system_state' = Str(st.before)
               /\ raw_text' = st.api_call.action \o " " \o st.api_call.device
                                  \o " " \o st.api_call.location
          ELSE /\ command' = NoCommand
               /\ system_state' = None
               /\ raw_text' = ""
       /\ UNCHANGED <<firewall_result, prompted, confirm>>

\* the caller is done with the result; the arguments and the result are dropped
Forget ==
    /\ pc \in {"returned", "evaluated", "executed", "canceled", "processed"}
    /\ pc' = "idle"
    /\ command' = NoCommand
    /\ system_state' = None
    /\ raw_text' = ""
    /\ hour' = 0
    /\ verdict' = NoVerdict
    /\ api_call' = NoApiCall
    /\ api_return' = ""
    /\ firewall_result' = NoVerdict
    /\ prompted' = FALSE
    /\ confirm' = ""
    /\ responses' = <<>>
    /\ UNCHANGED device_states

-----------------------------------------------------------------------------
(* The calls the model makes *)

\* control_device arguments
ApiDevices == {"door", "light", "camera", "security_camera", "all"}

ApiLocations == {"all", "front"}

ApiActions == {"turn_on", "turn_off", "unlock", "get_status"}

\* every hour is compared with 6, 7, 8, 22 and 23 only: both sides of each
ApiHours == {0, 5, 6, 7, 8, 12, 21, 22, 23}

\* intent_firewall arguments: the system states ...
SystemStates ==
    {None,
     Str([k \in {} |-> TRUE]),
     Str([kids_room_occupied |-> TRUE, child_lock_enabled |-> FALSE]),
     Str([kids_room_occupied |-> FALSE, child_lock_enabled |-> TRUE])}

\* ... and the commands with their raw text, by rule group
Calls(devices, locations, actions, texts) ==
    {[command |-> [device |-> Str(d), location |-> l, action |-> Str(a)],
      raw_text |-> t] :
        d \in devices, l \in locations, a \in actions, t \in texts}

\* a command dict with no "location" key, as main.py builds it
CallsWithoutLocation(devices, actions, texts) ==
    {[command |-> [device |-> Str(d), action |-> Str(a)], raw_text |-> t] :
        d \in devices, a \in actions, t \in texts}

LightingCalls ==
    Calls({"light", "Lamp"},
          {Str("all"), Str("kids room"), Str("stairs"), Str("bedroom")},
          {"turn_off", "set_brightness", "turn_on"},
          {"", "turn off all lights", "set brightness to 95%", "disable child lock"})

DoorCalls ==
    Calls({"door", "lock", "smart lock"},
          {Str("front")},
          {"unlock", "open", "lock"},
          {"unlock all doors", "open ALL DOORS now", "let the stranger in",
           "unlock the front door"})

ClimateCalls ==
    Calls({"thermostat", "air conditioning", "heater", "humidifier"},
          {Str("all")},
          {"set_temperature", "turn_on"},
          {"", "set to 5 degrees", "set to 9", "set to 10", "set to 24 degrees",
           "set to 32", "set to 33", "set to 100 degrees", "set humidity to 85%",
           "set humidity to 100%", "disable smoke detector and set to 24"})

GeneralCalls ==
    Calls({"", "fan", "light", "security camera"},
          {Str(""), None},
          {"status", "get_status", "list_devices", "check", "", "turn_off"},
          {"", "please disable all security now", "Turn Off All Alarms"})
    \cup CallsWithoutLocation({"", "fan", "light", "security camera"},
          {"status", "get_status", "list_devices", "check", "", "turn_off"},
          {"", "please disable all security now", "Turn Off All Alarms"})

WaterHeaterCalls ==
    Calls({"water heater"},
          {Str("all")},
          {"turn_on", "set_temperature", "turn_off"},
          {"", "set to 60", "set to 61", "heat water to 100 degrees",
           "disable child lock and set to 45"})

CameraCalls ==
    Calls({"security camera", "camera"},
          {Str("all")},
          {"turn_off", "disable", "turn_on"},
          {"", "turn off the camera", "stop all security cameras"})

HotTubCalls ==
    Calls({"hot tub"},
          {Str("all")},
          {"turn_on", "set_temperature"},
          {"", "heat to 38", "heat to 40", "heat to 41 degrees", "heat to 100 degrees"})

RobotCalls ==
    Calls({"robot vacuum", "robot lawn mower", "robot mower", "washing machine", "dryer"},
          {Str("all")},
          {"start", "turn_on", "stop"},
          {"", "start the robot at 10"})

KitchenCalls ==
    Calls({"oven", "stove", "microwave", "pressure cooker", "blender", "food processor"},
          {Str("kitchen")},
          {"turn_on", "start", "preheat", "turn_off"},
          {"", "preheat to 260 degrees", "disable smoke detector"})

MedicineCabinetCalls ==
    Calls({"medicine cabinet"},
          {Str("bathroom")},
          {"open", "close"},
          {"", "open it and disable child lock"})

SynonymCalls ==
    Calls({"thermostat", "light"},
          {Str("all")},
          {"check", "show", "Show", "status"},
          {"", "set to 5 degrees", "disable all security"})

FirewallCalls ==
    LightingCalls \cup DoorCalls \cup ClimateCalls \cup GeneralCalls
        \cup WaterHeaterCalls \cup CameraCalls \cup HotTubCalls
        \cup RobotCalls \cup KitchenCalls \cup MedicineCabinetCalls \cup SynonymCalls

\* one call at a time: the next is made once the last has been dealt with
Next ==
    \/ /\ pc = "idle"
       /\ \E device \in ApiDevices, location \in ApiLocations,
             action \in ApiActions, h \in ApiHours :
               ControlDevice(device, location, action, h)
    \/ Forget

Spec == Init /\ [][Next]_vars

NextFirewall ==
    \/ /\ pc = "idle"
       /\ \E c \in FirewallCalls, state \in SystemStates, h \in Hours :
               EvaluateFirewall(c.command, state, c.raw_text, h)
    \/ Forget

SpecFirewall == Init /\ [][NextFirewall]_vars

\* the commands of the main loop: the devices query_llm and normalize_command
\* emit, and the answers typed at the prompt
MainDevices == {"light", "door", "camera", "security_camera", "microwave"}

MainActions == {"turn_on", "turn_off", "unlock"}

Answers == {"yes", " Yes", "no"}

AppHours == {5, 6, 12, 22, 23}

\* the commands handed to process_commands
ProcessCommandSet ==
    {[device |-> d, location |-> l, action |-> a] :
        d \in {"Microwave", "front door", "Smart TV"},
        l \in {"", "kitchen"},
        a \in {"turn_on", "turn_off"}}

\* lists of one command, and of two commands for the microwave
CommandLists ==
    {<<c>> : c \in ProcessCommandSet}
        \cup {<<c, d>> : c, d \in {x \in ProcessCommandSet :
                                      x.device = "Microwave" /\ x.location = "kitchen"}}

NextApp ==
    \/ /\ pc = "idle"
       /\ \E device \in MainDevices, action \in MainActions,
             answer \in Answers, h \in AppHours :
               MainCommand(device, action, answer, h)
    \/ /\ pc = "idle"
       /\ \E commands \in CommandLists, h \in AppHours :
               ProcessCommands(commands, h)
    \/ Forget

SpecApp == Init /\ [][NextApp]_vars

-----------------------------------------------------------------------------
(* What the properties speak of *)

\* an intent_firewall call has just returned (it did not raise)
Evaluated == pc = "evaluated" /\ ~verdict.raised

\* the fields of the evaluated command, as the firewall reads them
Device == Lower(DictGet(command, "device", "")[1])

Location == Lower(DictGet(command, "location", "")[1])

Action == Lower(DictGet(command, "action", "")[1])

IsAllow(v) == ~v.raised /\ v.allowed /\ ~v.requires_confirmation

IsBlock(v) ==
    ~v.raised /\ ~v.allowed /\ ~v.requires_confirmation /\ v.message # ""

IsConfirm(v) ==
    ~v.raised /\ ~v.allowed /\ v.requires_confirmation /\ v.message # ""

AlwaysSafeAction(a) == a \in {"status", "get_status", "list_devices"}

HasDenylistPhrase(text) ==
    \E p \in {"disable all security", "turn off all alarms", "disable smoke detector",
              "unlock all doors", "stop all security cameras", "disable child lock"} :
        Contains(p, Lower(text))

\* the guard of some category's rules holds of the device and the action
MatchesCategory(d, a) ==
    \/ IsLighting(d) /\ a \in {"turn_off", "set_brightness"}
    \/ InList(d, doors) /\ a \in {"unlock", "open"}
    \/ InList(d, kitchen) /\ a \in {"turn_on", "start", "preheat"}
    \/ InList(d, climate)
    \/ d = "water heater" /\ a \in {"turn_on", "set_temperature"}
    \/ InList(d, cameras) /\ a \in {"turn_off", "disable"}
    \/ InList(d, outdoor) /\ a = "turn_on"
    \/ InList(d, robots) /\ a \in {"start", "turn_on"}
    \/ d = "medicine cabinet" /\ a = "open"

-----------------------------------------------------------------------------
(* The properties *)

\* C1: every verdict intent_firewall returns is an Allow (allowed, no
\* confirmation), a Block (not allowed, no confirmation, a message) or a Confirm
\* (not allowed, confirmation required, a message), and nothing else.
C1_VerdictShapes ==
    Evaluated => (IsAllow(verdict) \/ IsBlock(verdict) \/ IsConfirm(verdict))

C1_Witness == Evaluated /\ IsConfirm(verdict) /\ hour = 23

\* C2: a control_device call changes device_states only when the firewall's
\* verdict for it is Allow; on a Block or a Confirm it returns the firewall's
\* message and leaves device_states as it was.
C2_ExecutorOnlyActsOnAllow ==
    [][pc' = "returned" =>
        /\ device_states' # device_states => IsAllow(verdict')
        /\ ~IsAllow(verdict') =>
              (api_return' = verdict'.message /\ device_states' = device_states)]_vars

C2_Witness ==
    /\ pc = "returned"
    /\ IsConfirm(verdict)
    /\ api_return = verdict.message
    /\ device_states # InitialDeviceStates

\* C3: a command whose action is status, get_status or list_devices is allowed
\* with an empty message, whatever the device, the location, the raw text, the
\* system state and the hour are.
C3_StatusBypass ==
    (Evaluated /\ AlwaysSafeAction(Action)) =>
        (IsAllow(verdict) /\ verdict.message = "")

C3_Witness ==
    /\ Evaluated
    /\ Action = "list_devices"
    /\ HasDenylistPhrase(raw_text)
    /\ hour = 23
    /\ IsAllow(verdict)

\* C4, as claimed: whatever the action is, a raw text that contains a denylist
\* phrase is never allowed.
C4_Original == (Evaluated /\ HasDenylistPhrase(raw_text)) => ~IsAllow(verdict)

\* C4, amended: a raw text that contains a denylist phrase is never allowed,
\* unless the action is one of the always-safe status, get_status, list_devices.
C4_DenylistNeverAllowed ==
    (Evaluated /\ HasDenylistPhrase(raw_text) /\ ~AlwaysSafeAction(Action)) =>
        ~IsAllow(verdict)

C4_Witness ==
    /\ Evaluated
    /\ Device = "light"
    /\ Action = "turn_on"
    /\ raw_text = "disable child lock"
    /\ IsBlock(verdict)

KidsRoomTurnOff ==
    /\ Evaluated
    /\ Device = "light"
    /\ Location = "kids room"
    /\ Action = "turn_off"
    /\ StateFlag(system_state, "kids_room_occupied")

\* C6, as claimed: turning off the light of the occupied kids room is blocked at
\* every hour, whatever the raw text is.
C6_Original == KidsRoomTurnOff => IsBlock(verdict)

\* C6, amended: turning off the light of the occupied kids room is blocked at
\* every hour, except that a raw text mentioning "all lights" gets a Confirm
\* during the night window (from 22:00 to 06:00).
C6_KidsRoomBlock ==
    KidsRoomTurnOff =>
        IF Contains("all lights", Lower(raw_text)) /\ (hour >= 22 \/ hour < 6)
        THEN IsConfirm(verdict)
        ELSE IsBlock(verdict)

C6_Witness == KidsRoomTurnOff /\ raw_text = "" /\ hour = 23 /\ IsBlock(verdict)

BulkUnlock ==
    /\ Evaluated
    /\ Device \in {"door", "lock", "smart lock"}
    /\ Action \in {"unlock", "open"}
    /\ Contains("all doors", Lower(raw_text))

\* C7: unlocking or opening a door, lock or smart lock with a raw text that
\* mentions "all doors" is blocked at every hour, never confirmed or allowed.
C7_BulkUnlockBlocked == BulkUnlock => IsBlock(verdict)

C7_Witness == BulkUnlock /\ hour = 23 /\ Device = "smart lock" /\ IsBlock(verdict)

TemperatureCommand ==
    /\ Evaluated
    /\ Device \in {"thermostat", "air conditioning", "heater"}
    /\ ~AlwaysSafeAction(Action)
    /\ FirstNumber(Lower(raw_text), 1, 2, FALSE) # <<>>

Temperature == FirstNumber(Lower(raw_text), 1, 2, FALSE)[1]

\* C8: for a thermostat, air conditioning or heater, a first one- or two-digit
\* number of the raw text below 10 or above 32 is blocked, at every hour; one
\* from 10 to 32 is allowed when the raw text has no denylist phrase.
C8_TemperatureLimits ==
    TemperatureCommand =>
        /\ (Temperature < 10 \/ Temperature > 32) => IsBlock(verdict)
        /\ (Temperature >= 10 /\ Temperature <= 32 /\ ~HasDenylistPhrase(raw_text))
              => IsAllow(verdict)

C8_Witness ==
    /\ TemperatureCommand
    /\ Device = "heater"
    /\ Temperature = 33
    /\ IsBlock(verdict)

AllLightsOff ==
    /\ Evaluated
    /\ Device = "light"
    /\ Location = "all"
    /\ Action = "turn_off"

\* C9: turning off the lights of location "all" needs confirmation at every hour
\* from 22 on and before 6; from 6 to 21 it is allowed when the kids room is not
\* occupied and the raw text has no denylist phrase.
C9_NightLighting ==
    AllLightsOff =>
        /\ (hour >= 22 \/ hour < 6) => IsConfirm(verdict)
        /\ (/\ hour >= 6
            /\ hour < 22
            /\ ~StateFlag(system_state, "kids_room_occupied")
            /\ ~HasDenylistPhrase(raw_text)) => IsAllow(verdict)

C9_Witness == AllLightsOff /\ hour = 22 /\ IsConfirm(verdict)

\* C10: intent_firewall never raises: empty device and action strings, a None
\* location, an absent system state and an empty raw text all get a verdict.
C10_Totality == pc = "evaluated" => ~verdict.raised

\* C11: a command whose device and action match no category rule (the device
\* is unknown, or the action is none of the category's) and whose raw text has
\* no denylist phrase is allowed with an empty message, at every hour and in
\* every system state.
C11_DefaultAllow ==
    (/\ Evaluated
     /\ ~MatchesCategory(Device, NormalizeSynonyms(Action))
     /\ ~HasDenylistPhrase(raw_text)) =>
        (IsAllow(verdict) /\ verdict.message = "")

C11_Witness ==
    /\ Evaluated
    /\ Device = "security camera"
    /\ Action = ""
    /\ hour = 23
    /\ StateFlag(system_state, "kids_room_occupied")
    /\ IsAllow(verdict)
    /\ verdict.message = ""

\* C12: an evaluation of intent_firewall has no side effect: it leaves the device
\* registry as it was, makes no control_device call (none is recorded and nothing
\* is returned by one), and the command, the raw text and the system state it
\* leaves behind are the ones it was passed.
C12_NoSideEffects ==
    [][pc' = "evaluated" =>
        /\ device_states' = device_states
        /\ api_call' = api_call
        /\ api_return' = api_return
        /\ [command |-> command', raw_text |-> raw_text'] \in FirewallCalls
        /\ system_state' \in SystemStates]_vars

C12_Witness ==
    /\ Evaluated
    /\ Device = "light"
    /\ Location = "bedroom"
    /\ Action = "turn_on"
    /\ IsAllow(verdict)
    /\ device_states = InitialDeviceStates
    /\ api_call = NoApiCall

StrangerUnlock ==
    /\ Evaluated
    /\ Device \in {"door", "lock", "smart lock"}
    /\ Action \in {"unlock", "open"}
    /\ Contains("stranger", Lower(raw_text))

\* C14, as claimed: unlocking or opening a door, lock or smart lock with a raw
\* text that mentions "stranger" is blocked at every hour of day.
C14_Original == StrangerUnlock => IsBlock(verdict)

\* C14, amended: unlocking or opening a door, lock or smart lock with a raw text
\* that mentions "stranger" is blocked at every hour from 6 to 22; from 23:00 to
\* 06:00 the night rule comes first and the verdict is a Confirm, unless the raw
\* text also mentions "all doors", which is blocked at every hour.
C14_StrangerBlock ==
    StrangerUnlock =>
        IF (hour >= 23 \/ hour < 6) /\ ~Contains("all doors", Lower(raw_text))
        THEN IsConfirm(verdict)
        ELSE IsBlock(verdict)

C14_Witness ==
    /\ StrangerUnlock
    /\ Device = "lock"
    /\ Action = "open"
    /\ hour = 22
    /\ IsBlock(verdict)

\* a lighting device, no lighting rule returning a verdict, a denylist phrase
LightingUnfired ==
    /\ Evaluated
    /\ IsLighting(Device)
    /\ LightingRules(Device, Location, NormalizeSynonyms(Action), Lower(raw_text),
                     system_state, hour) = FallThrough
    /\ HasDenylistPhrase(raw_text)

\* C15, as claimed: a command for a lighting device for which no lighting rule
\* fires is allowed even when its raw text contains a denylist phrase.
C15_Original == LightingUnfired => IsAllow(verdict)

\* C15, amended: a command for a lighting device for which no lighting rule fires
\* is blocked when its raw text contains a denylist phrase, unless its action is
\* status, get_status or list_devices: matching the lighting category does not
\* keep the denylist from being read.
C15_LightingDenylist ==
    (LightingUnfired /\ ~AlwaysSafeAction(Action)) => IsBlock(verdict)

C15_Witness ==
    /\ LightingUnfired
    /\ Device = "lamp"
    /\ Location = "bedroom"
    /\ Action = "turn_off"
    /\ hour = 23
    /\ IsBlock(verdict)

\* the first number of up to three digits the raw text carries
HotTubTemperature == FirstNumber(Lower(raw_text), 1, 3, FALSE)

\* C16: a hot tub command whose raw text carries a temperature above 40 is
\* blocked, at every hour of day, the night window from 22:00 to 07:00 included.
C16_HotTubHardLimit ==
    (/\ Evaluated
     /\ Device = "hot tub"
     /\ ~AlwaysSafeAction(Action)
     /\ HotTubTemperature # <<>>
     /\ HotTubTemperature[1] > 40) => IsBlock(verdict)

\* the first number of two or three digits, a "%" allowed after it
Humidity == FirstNumber(Lower(raw_text), 2, 3, TRUE)

\* C17: for a humidifier, a raw text whose first two- or three-digit number is
\* above 80 (100 included) gets a Confirm.
C17_HumidifierLimit ==
    (/\ Evaluated
     /\ Device = "humidifier"
     /\ ~AlwaysSafeAction(Action)
     /\ Humidity # <<>>
     /\ Humidity[1] > 80) => IsConfirm(verdict)

CameraOff ==
    /\ Evaluated
    /\ Device \in {"security camera", "camera"}
    /\ Action \in {"turn_off", "disable"}

\* the message of the camera rule's Block
CameraBlockMessage ==
    format_blocked_response("Disabling cameras at night compromises security.",
                            "Keep cameras enabled overnight.")

\* C18: turning off or disabling a security camera or camera is blocked by the
\* camera rule at every hour from 22 on and before 8; from 8 to 21 the camera
\* rule does not block it, and it is allowed when the raw text has no denylist
\* phrase.
C18_CameraNightBlock ==
    CameraOff =>
        /\ (hour >= 22 \/ hour < 8) =>
              (IsBlock(verdict) /\ verdict.message = CameraBlockMessage)
        /\ (hour >= 8 /\ hour < 22) =>
              /\ verdict.message # CameraBlockMessage
              /\ ~HasDenylistPhrase(raw_text) => IsAllow(verdict)

C18_Witness ==
    /\ CameraOff
    /\ Device = "camera"
    /\ Action = "disable"
    /\ hour = 7
    /\ IsBlock(verdict)

PlainUnlock ==
    /\ Evaluated
    /\ Device \in {"door", "lock", "smart lock"}
    /\ Action \in {"unlock", "open"}
    /\ ~Contains("all doors", Lower(raw_text))
    /\ ~Contains("stranger", Lower(raw_text))

\* C19: unlocking or opening a door, lock or smart lock with a raw text that
\* mentions neither "all doors" nor "stranger" needs confirmation at every hour
\* from 23 on and before 6; from 6 to 22 (22 included) the night rule does not
\* gate it, and it is allowed when the raw text has no denylist phrase.
C19_DoorNightConfirm ==
    PlainUnlock =>
        /\ (hour >= 23 \/ hour < 6) => IsConfirm(verdict)
        /\ (hour >= 6 /\ hour < 23) =>
              /\ ~IsConfirm(verdict)
              /\ ~HasDenylistPhrase(raw_text) => IsAllow(verdict)

C19_Witness ==
    /\ PlainUnlock
    /\ Device = "smart lock"
    /\ raw_text = "unlock the front door"
    /\ hour = 5
    /\ IsConfirm(verdict)

WaterHeaterCommand ==
    /\ Evaluated
    /\ Device = "water heater"
    /\ Action \in {"turn_on", "set_temperature"}
    /\ FirstNumber(Lower(raw_text), 1, 3, FALSE) # <<>>

WaterTemperature == FirstNumber(Lower(raw_text), 1, 3, FALSE)[1]

\* C20: turning on a water heater or setting its temperature with a raw text
\* whose first number is above 60 is blocked at every hour; with a first number
\* of 60 or less and no denylist phrase it is allowed.
C20_ScaldLimit ==
    WaterHeaterCommand =>
        /\ WaterTemperature > 60 => IsBlock(verdict)
        /\ (WaterTemperature <= 60 /\ ~HasDenylistPhrase(raw_text))
              => IsAllow(verdict)

C20_Witness ==
    /\ WaterHeaterCommand
    /\ Action = "set_temperature"
    /\ WaterTemperature = 61
    /\ hour = 12
    /\ IsBlock(verdict)

\* C21, as claimed: starting or turning on a robot vacuum, a robot mower, a
\* washing machine or a dryer needs confirmation at every hour from 22 on and
\* before 7.
C21_Original ==
    (/\ Evaluated
     /\ Device \in {"robot vacuum", "robot mower", "washing machine", "dryer"}
     /\ Action \in {"start", "turn_on"}
     /\ (hour >= 22 \/ hour < 7)) => IsConfirm(verdict)

\* C21, amended: starting or turning on a robot vacuum, a robot lawn mower, a
\* washing machine or a dryer needs confirmation at every hour from 22 on and
\* before 7; the mower is known to the rule as "robot lawn mower" only.
C21_QuietHours ==
    (/\ Evaluated
     /\ Device \in {"robot vacuum", "robot lawn mower", "washing machine", "dryer"}
     /\ Action \in {"start", "turn_on"}
     /\ (hour >= 22 \/ hour < 7)) => IsConfirm(verdict)

C21_Witness ==
    /\ Evaluated
    /\ Device = "robot lawn mower"
    /\ Action = "start"
    /\ hour = 22
    /\ IsConfirm(verdict)

\* C22: turning on, starting or preheating an oven, a stove, a microwave, a
\* pressure cooker, a blender or a food processor needs confirmation at every
\* hour from 23 on and before 6, whatever the raw text is.
C22_KitchenNightConfirm ==
    (/\ Evaluated
     /\ Device \in {"oven", "stove", "microwave", "pressure cooker", "blender",
                    "food processor"}
     /\ Action \in {"turn_on", "start", "preheat"}
     /\ (hour >= 23 \/ hour < 6)) => IsConfirm(verdict)

C22_Witness ==
    /\ Evaluated
    /\ Device = "pressure cooker"
    /\ Action = "preheat"
    /\ raw_text = "disable smoke detector"
    /\ hour = 5
    /\ IsConfirm(verdict)

\* the call intent_firewall({device: medicine cabinet, action: open}, ...)
MedicineCabinetOpen ==
    /\ pc = "evaluated"
    /\ DictGet(command, "device", "") = Str("medicine cabinet")
    /\ DictGet(command, "action", "") = Str("open")

\* C23: opening the medicine cabinet gets a Confirm exactly when the system
\* state's child_lock_enabled is true; with no system state, or with the flag
\* missing or false, the verdict is no Confirm, and in no case does the call raise.
C23_MedicineCabinetChildLock ==
    MedicineCabinetOpen =>
        /\ ~verdict.raised
        /\ IsConfirm(verdict) <=>
              (/\ system_state # None
               /\ "child_lock_enabled" \in DOMAIN system_state[1]
               /\ system_state[1].child_lock_enabled)

C23_Witness ==
    /\ MedicineCabinetOpen
    /\ system_state = None
    /\ raw_text = ""
    /\ IsAllow(verdict)

\* C24: a command with action check or show gets the verdict the same command
\* gets with action status, for every device, location, raw text, system state
\* and hour.
C24_SynonymNormalization ==
    (Evaluated /\ Action \in {"check", "show"}) =>
        verdict = intent_firewall([command EXCEPT !.action = Str("status")],
                                  system_state, raw_text, hour)

\* the first number of the raw text, of any number of digits
AnyNumber == FirstNumber(Lower(raw_text), 1, Len(raw_text), FALSE)

\* C29: for a thermostat, air conditioning or heater, a raw text whose number is
\* greater than 32 is never allowed, three-digit numbers such as 100 included.
C29_OutOfRangeNeverAllowed ==
    (/\ Evaluated
     /\ Device \in {"thermostat", "air conditioning", "heater"}
     /\ ~AlwaysSafeAction(Action)
     /\ AnyNumber # <<>>
     /\ AnyNumber[1] > 32) => ~IsAllow(verdict)

\* C25: whatever control_device calls came before, no control_device call made at
\* an hour from 22 on or before 8 turns the registry's security_camera off.
C25_CamerasStayOnOvernight ==
    [][(pc' = "returned" /\ (hour' >= 22 \/ hour' < 8)) =>
          ~(/\ device_states.security_camera.status # "off"
            /\ device_states'.security_camera.status = "off")]_vars

\* the door entries of the registry a step has newly set to unlocked
NewlyUnlocked ==
    {n \in {"front_door", "back_door"} :
        /\ device_states[n].status # "unlocked"
        /\ device_states'[n].status = "unlocked"}

\* C26: no single control_device call with action unlock sets more than one door
\* entry of the registry to unlocked.
C26_NoBulkUnlock ==
    [][(pc' = "returned" /\ api_call'.action = "unlock") =>
          Cardinality(NewlyUnlocked) <= 1]_vars

\* the call of the main loop went on to control_device and was not refused
AppliedByMain ==
    /\ pc = "executed"
    /\ ~IsRefused(verdict)
    /\ \A k \in 1..Len(MatchedDevices(api_call.device, api_call.location)) :
          NewStatus(api_call.action) # <<>> =>
              device_states[MatchedDevices(api_call.device, api_call.location)[k]].status
                  = NewStatus(api_call.action)[1]

\* C27: in the main loop, when the firewall's verdict for a recognized command
\* is a Confirm and the user answers yes at the prompt, the command is applied
\* to the registry and is not stopped again by the firewall.
C27_ConfirmedCommandsProceed ==
    (/\ pc \in {"executed", "canceled"}
     /\ IsConfirm(firewall_result)
     /\ confirm = "yes") => AppliedByMain

\* C28: in the main loop the prompt is shown only for a verdict that requires
\* confirmation: a command the firewall allows is executed without a prompt and
\* a command it blocks is not offered for confirmation.
C28_PromptOnlyWhenRequired ==
    pc \in {"executed", "canceled"} =>
        /\ prompted => firewall_result.requires_confirmation
        /\ IsAllow(firewall_result) => (~prompted /\ pc = "executed")
        /\ IsBlock(firewall_result) => ~prompted

\* the last response reports an execution
ReportsExecuted ==
    /\ responses # <<>>
    /\ SubSeq(responses[Len(responses)], 1, 15) = "Action executed"

\* C30: process_commands reports a command as executed only if the firewall
\* allowed it and control_device applied it to a device of the registry; a
\* command control_device refused with a Block or a Confirm is not reported as
\* executed.
C30_TruthfulReports ==
    (pc = "processed" /\ ReportsExecuted) =>
        /\ IsAllow(verdict)
        /\ MatchedDevices(api_call.device, api_call.location) # <<>>

=============================================================================
